---- MODULE Spec2Model ----
(***************************************************************************)
(* Model of abipy/eph/varpeq.py: the VARPEQ.nc post-processing objects     *)
(* VarpeqReader, VarpeqFile, Polaron and VarpeqRobot.                      *)
(*                                                                         *)
(* Conventions.                                                            *)
(*  - numpy arrays and python lists are functions over 0..n-1, so that the *)
(*    indices are those of the source.                                     *)
(*  - a complex number is the pair <<re, im>>.                             *)
(*  - a real number is a rational <<num, den>> with den > 0, kept in       *)
(*    lowest terms by Rat.                                                 *)
(*  - python's None is the empty tuple <<>>.                               *)
(*  - a call returns a record whose field raised is "" when the call       *)
(*    returns and the name of the exception when it raises.                *)
(***************************************************************************)
EXTENDS Integers, Sequences, FiniteSets, TLC

VARIABLES
    varpeq,         \* the open VarpeqFile (Spec), a closed placeholder in SpecRobot
    polaron_spin,   \* cache of the lazy property VarpeqFile.polaron_spin, <<>> until evaluated
    robot,          \* the (label, abifile) items of the VarpeqRobot, in insertion order
    ret             \* what the last call returned or raised

vars == <<varpeq, polaron_spin, robot, ret>>

(***************************************************************************)
(* Bounds of the model.                                                    *)
(***************************************************************************)
\* largest number of divisions of a k- or q-mesh along one direction
MaxDiv == 2
\* largest number of (filtered) k- or q-points stored for one spin
MaxNk == 2
\* largest number of files in a robot
MaxFiles == 3

None == <<>>
Range(n) == 0 .. (n - 1)
Max(a, b) == IF a >= b THEN a ELSE b
Abs(a) == IF a >= 0 THEN a ELSE -a

(***************************************************************************)
(* Rational arithmetic (python floats, modelled exactly).                  *)
(***************************************************************************)
RECURSIVE GCD(_, _)
GCD(a, b) == IF b = 0 THEN a ELSE GCD(b, a % b)

Rat(n, d) ==
    LET s == IF d < 0 THEN -1 ELSE 1
        g == GCD(Abs(n), Abs(d))
    IN  <<(s * n) \div g, (s * d) \div g>>

RatInt(n) == <<n, 1>>
RatAdd(a, b) ==
    LET g == GCD(a[2], b[2])
    IN  Rat(a[1] * (b[2] \div g) + b[1] * (a[2] \div g), (a[2] \div g) * b[2])
RatNeg(a) == <<-a[1], a[2]>>
RatSub(a, b) == RatAdd(a, RatNeg(b))
RatMul(a, b) ==
    LET g1 == GCD(Abs(a[1]), b[2])
        g2 == GCD(Abs(b[1]), a[2])
        h1 == IF g1 = 0 THEN 1 ELSE g1
        h2 == IF g2 = 0 THEN 1 ELSE g2
    IN  Rat((a[1] \div h1) * (b[1] \div h2), (a[2] \div h2) * (b[2] \div h1))
RatInv(a) == Rat(a[2], a[1])
RatDiv(a, b) == RatMul(a, RatInv(b))

\* np.round: round to the nearest integer, halves to the even one
RoundHalfEven(a) ==
    LET fl  == a[1] \div a[2]
        rem == a[1] % a[2]
    IN  IF 2 * rem < a[2] THEN fl
        ELSE IF 2 * rem > a[2] THEN fl + 1
        ELSE IF fl % 2 = 0 THEN fl ELSE fl + 1

\* the real cube root, defined on the perfect cubes the model uses
CubeRoot(v) == CHOOSE c \in 0 .. v : c * c * c = v

\* |z|^2 of a complex number
Abs2(z) == z[1] * z[1] + z[2] * z[2]

(***************************************************************************)
(* abipy.core.abinit_units                                                 *)
(***************************************************************************)
\* abu.Ha_eV = 27.2113845, to three figures
Ha_eV == Rat(272, 10)
\* abu.Ang_Bohr = 1.8897261, to three figures
Ang_Bohr == Rat(189, 100)

(***************************************************************************)
(* Entry and _ALL_ENTRIES                                                  *)
(***************************************************************************)
Entry(name, latex, info) == [name |-> name, latex |-> latex, info |-> info]

\* the list of lines 96-102
ALL_ENTRIES_LIST ==
    <<Entry("E_pol", "$E_{pol}$", ""),
      Entry("E_el", "$E_{el}$", ""),
      Entry("E_ph", "$E_{ph}$", ""),
      Entry("elph", "$E_{elph}$", ""),
      Entry("epsilon", "$\\varepsilon$", "")>>

\* the keys of the dictionary name --> Entry of line 105, in insertion order
ALL_ENTRIES_keys == [i \in Range(Len(ALL_ENTRIES_LIST)) |-> ALL_ENTRIES_LIST[i + 1].name]

\* the dictionary of line 105
ALL_ENTRIES ==
    [k \in {ALL_ENTRIES_keys[i] : i \in DOMAIN ALL_ENTRIES_keys} |->
        LET i == CHOOSE j \in DOMAIN ALL_ENTRIES_keys : ALL_ENTRIES_keys[j] = k
        IN  ALL_ENTRIES_LIST[i + 1]]

(***************************************************************************)
(* The content of a VARPEQ.nc file: the netcdf variables listed at lines   *)
(* 761-778, with the k-sampling, the structure and nsppol of its bands.    *)
(*                                                                         *)
(* A reduced coordinate is a rational; the point p of the mesh n with      *)
(* shift s (in units of 1/2) has coordinate (2 p + s) / (2 n) along each   *)
(* direction.  The arrays hold a different value at every position, so     *)
(* that a value read at the wrong position shows.                          *)
(***************************************************************************)
ShiftZero == <<0, 0, 0>>
ShiftHalf == <<1, 1, 1>>

\* diagonal mesh divisions (ksampling.mpdivs, gstore_ngqpt)
Meshes ==
    {<<a, b, 1>> : a \in 1 .. MaxDiv, b \in 1 .. MaxDiv} \cup {<<MaxDiv, MaxDiv, MaxDiv>>}

\* k-samplings: a diagonal mesh with its list of shifts, or a non diagonal
\* mesh (mpdivs is None)
KSamplings ==
    {[mpdivs |-> m, shifts |-> sh] :
        m \in Meshes, sh \in {<<ShiftZero>>, <<ShiftHalf>>, <<ShiftZero, ShiftHalf>>}}
    \cup {[mpdivs |-> None, shifts |-> <<ShiftZero>>]}

\* the k-samplings Polaron.ngkpt_and_shifts accepts
OneShift(ks) == ks.mpdivs # None /\ Len(ks.shifts) = 1

\* integer points; -1 and the points beyond the mesh fold back into it
BasePoints == {<<0, 0, 0>>, <<1, 0, 0>>, <<0, 1, 0>>, <<-1, 0, 0>>}

\* lists of 1..MaxNk points
PointLists == UNION {[Range(n) -> BasePoints] : n \in 1 .. MaxNk}

\* reduced coordinates of the integer point p on the mesh ngkpt shifted by shift
FracCoords(p, ngkpt, shift) ==
    [d \in 1 .. 3 |-> <<2 * p[d] + shift[d], 2 * ngkpt[d]>>]

ZeroPoint == [d \in 1 .. 3 |-> <<0, 1>>]

\* number of points of spin s when spin 0 has n points
NPoints(n, s) == IF s = 0 THEN n ELSE Max(1, n - 1)

\* kpts_spin / qpts_spin (nsppol, max_nk, three): spin s holds the list
\* rotated by s, cut to its own number of points and padded with zeros
PtsSpin(nsppol, list, ngkpt, shift) ==
    LET n == Cardinality(DOMAIN list)
    IN  [s \in Range(nsppol) |->
            [i \in Range(n) |->
                IF i < NPoints(n, s)
                THEN FracCoords(list[(i + s) % n], ngkpt, shift)
                ELSE ZeroPoint]]

\* a_spin (nsppol, max_nk, max_nb) and b_spin (nsppol, max_nq, natom3), complex
ASpin(nsppol, max_nk, max_nb) ==
    [s \in Range(nsppol) |-> [ik \in Range(max_nk) |-> [ib \in Range(max_nb) |->
        <<100 * (s + 1) + 10 * ik + ib, 1 + ib>>]]]
BSpin(nsppol, max_nq, natom3) ==
    [s \in Range(nsppol) |-> [iq \in Range(max_nq) |-> [nu \in Range(natom3) |->
        <<-(100 * (s + 1) + 10 * iq + nu), 2 + nu>>]]]

\* iter_rec (nsppol, nstep, six), in Hartree
IterRec(nsppol, nstep, e) ==
    [s \in Range(nsppol) |-> [it \in Range(nstep) |-> [j \in Range(6) |->
        e + 7 * j + 2 * it + s]]]

\* the netcdf file
NcFile(nsppol, ksampling, klist, nb0, ngqpt, qlist, natom, volume, e) ==
    LET ngkpt == IF ksampling.mpdivs = None THEN <<1, 1, 1>> ELSE ksampling.mpdivs
        nk    == Cardinality(DOMAIN klist)
        nq    == Cardinality(DOMAIN qlist)
        nb(s) == IF s = 0 THEN nb0 ELSE 3 - nb0
        maxnb == IF nsppol = 1 THEN nb0 ELSE 2
    IN  [nsppol       |-> nsppol,
         ksampling    |-> ksampling,
         natom        |-> natom,
         volume       |-> volume,
         varpeq_pkind |-> "electron",
         nk_spin      |-> [s \in Range(nsppol) |-> NPoints(nk, s)],
         nq_spin      |-> [s \in Range(nsppol) |-> NPoints(nq, s)],
         \* Fortran convention: first and last band, counted from 1
         brange_spin  |-> [s \in Range(nsppol) |-> <<s + 1, s + nb(s)>>],
         gstore_ngqpt |-> ngqpt,
         kpts_spin    |-> PtsSpin(nsppol, klist, ngkpt, ksampling.shifts[1]),
         qpts_spin    |-> PtsSpin(nsppol, qlist, ngqpt, ShiftZero),
         a_spin       |-> ASpin(nsppol, nk, maxnb),
         b_spin       |-> BSpin(nsppol, nq, 3 * natom),
         nstep2cv     |-> [s \in Range(nsppol) |-> 2 - s],
         iter_rec     |-> IterRec(nsppol, 2, e)]

OnePoint == [i \in Range(1) |-> <<0, 0, 0>>]

\* the files of Spec: spin-polarized files with every k-sampling, every
\* k-list where the k-sampling is one the Polaron accepts, and one q-point;
\* unpolarized files with one k-point of a shifted mesh and every q-mesh and
\* q-list
NcFiles ==
    {NcFile(2, ks, kl, 2, <<1, 1, 1>>, OnePoint, 1, 8, 1) :
        ks \in {x \in KSamplings : OneShift(x)}, kl \in PointLists}
    \cup
    {NcFile(2, ks, OnePoint, 2, <<1, 1, 1>>, OnePoint, 1, 8, 1) :
        ks \in {x \in KSamplings : ~OneShift(x)}}
    \cup
    {NcFile(1, [mpdivs |-> <<1, 1, 1>>, shifts |-> <<ShiftHalf>>], OnePoint, 1, qm, ql, 1, 8, 1) :
        qm \in Meshes, ql \in PointLists}

(***************************************************************************)
(* VarpeqReader.__init__ and VarpeqFile.__init__                           *)
(***************************************************************************)
VarpeqReader(nc) ==
    LET brange == [s \in Range(nc.nsppol) |->
                      <<nc.brange_spin[s][1] - 1, nc.brange_spin[s][2]>>]
    IN  [nsppol       |-> nc.nsppol,
         nk_spin      |-> nc.nk_spin,
         nq_spin      |-> nc.nq_spin,
         varpeq_pkind |-> nc.varpeq_pkind,
         ngqpt        |-> nc.gstore_ngqpt,
         brange_spin  |-> brange,
         nb_spin      |-> [s \in Range(nc.nsppol) |-> brange[s][2] - brange[s][1]],
         nc           |-> nc]

\* r.read_value(varname)
read_value(r, varname) == r.nc[varname]

VarpeqFile(nc) ==
    [r         |-> VarpeqReader(nc),
     ebands    |-> [nsppol |-> nc.nsppol, kpoints |-> [ksampling |-> nc.ksampling]],
     structure |-> [natom |-> nc.natom, lattice |-> [volume |-> nc.volume]]]

(***************************************************************************)
(* Polaron.from_varpeq and VarpeqFile.polaron_spin                         *)
(***************************************************************************)
\* array[:n]
Slice(array, n) == [i \in Range(n) |-> array[i]]

from_varpeq(file, spin) ==
    LET r  == file.r
        sp == spin
        nk == r.nk_spin[sp]
        nq == r.nq_spin[sp]
        nb == r.nb_spin[sp]
    IN  [spin    |-> sp,
         nb      |-> nb,
         nk      |-> nk,
         nq      |-> nq,
         bstart  |-> r.brange_spin[sp][1],
         bstop   |-> r.brange_spin[sp][2],
         kpoints |-> Slice(read_value(r, "kpts_spin")[sp], nk),
         qpoints |-> Slice(read_value(r, "qpts_spin")[sp], nq),
         a_kn    |-> [ik \in Range(nk) |-> Slice(read_value(r, "a_spin")[sp][ik], nb)],
         b_qnu   |-> Slice(read_value(r, "b_spin")[sp], nq),
         \* a reference to the file, which is the open file of the state
         varpeq  |-> "varpeq"]

\* self.varpeq of a Polaron: the file it was built from, the open file
Polaron_varpeq(self) == varpeq

\* [Polaron.from_varpeq(self, spin) for spin in range(self.r.nsppol)]
polaron_spin_list_mut(file) == [spin \in Range(file.r.nsppol) |-> from_varpeq(file, 0)]
polaron_spin_list(file) == [spin \in Range(file.r.nsppol) |-> from_varpeq(file, spin)]

(***************************************************************************)
(* abipy.core.kpoints.kpoints_indices:                                     *)
(*     np.array([np.round((kpt % 1) * ngkpt) for kpt in frac_coords], int) *)
(***************************************************************************)
kpoints_indices(frac_coords, ngkpt) ==
    [i \in DOMAIN frac_coords |->
        [d \in 1 .. 3 |->
            LET k == frac_coords[i][d]
            IN  RoundHalfEven(Rat((k[1] % k[2]) * ngkpt[d], k[2]))]]

(***************************************************************************)
(* Polaron.ngkpt_and_shifts                                                *)
(***************************************************************************)
\* the test on the number of shifts
too_many_shifts_mut(shifts) == Len(shifts) > 2
too_many_shifts(shifts) == Len(shifts) > 1

ngkpt_and_shifts(self) ==
    LET ksampling == Polaron_varpeq(self).ebands.kpoints.ksampling
        ngkpt     == ksampling.mpdivs
        shifts    == ksampling.shifts
    IN  IF ngkpt = None
        THEN [raised |-> "ValueError", msg |-> "Non diagonal k-meshes are not supported!"]
        ELSE IF too_many_shifts(shifts)
        THEN [raised |-> "ValueError", msg |-> "Multiple k-shifts are not supported!"]
        ELSE [raised |-> "", ngkpt |-> ngkpt, shifts |-> shifts]

(***************************************************************************)
(* Polaron.insert_a_inbox and Polaron.insert_b_inbox                       *)
(***************************************************************************)
\* the cells of an array of shape (n0, nx, ny, nz)
Cells(n0, ngkpt) ==
    {<<i0, ix, iy, iz>> : i0 \in Range(n0), ix \in Range(ngkpt[1]),
                          iy \in Range(ngkpt[2]), iz \in Range(ngkpt[3])}

\* what np.empty may hold: the memory is not initialised
GarbageSeeds == {0, 1}
Garbage(g, cell) == <<g * (40 + cell[1] + 2 * cell[2] + 3 * cell[3] + 5 * cell[4]), g>>

\* np.empty(shape, dtype=complex) or np.full(shape, fill_value, dtype=complex)
new_array_mut(n0, ngkpt, fill_value, g) ==
    [cell \in Cells(n0, ngkpt) |-> Garbage(g, cell)]
new_array(n0, ngkpt, fill_value, g) ==
    [cell \in Cells(n0, ngkpt) |->
        IF fill_value = None THEN Garbage(g, cell) ELSE fill_value]

\* numpy raises IndexError for an index beyond the axis
InBounds(inds, ngkpt) == \A d \in 1 .. 3 : inds[d] >= 0 /\ inds[d] < ngkpt[d]

\* a_data[ib, ix, iy, iz] = a_cplx
a_store_mut(a_data, ib, k_inds, a_cplx) ==
    [a_data EXCEPT ![<<ib, k_inds[2], k_inds[1], k_inds[3]>>] = a_cplx]
a_store(a_data, ib, k_inds, a_cplx) ==
    [a_data EXCEPT ![<<ib, k_inds[1], k_inds[2], k_inds[3]>>] = a_cplx]

\* for a_cplx, k_inds in zip(self.a_kn[:,ib], k_indices), from position i on
RECURSIVE a_inner_loop(_, _, _, _, _)
a_inner_loop(a_data, a_kn, k_indices, ib, i) ==
    IF i \notin DOMAIN a_kn \/ i \notin DOMAIN k_indices THEN a_data
    ELSE a_inner_loop(a_store(a_data, ib, k_indices[i], a_kn[i][ib]), a_kn, k_indices, ib, i + 1)

\* for ib in range(self.nb), from band ib on
RECURSIVE a_outer_loop(_, _, _, _, _)
a_outer_loop(a_data, a_kn, k_indices, nb, ib) ==
    IF ib >= nb THEN a_data
    ELSE a_outer_loop(a_inner_loop(a_data, a_kn, k_indices, ib, 0), a_kn, k_indices, nb, ib + 1)

insert_a_inbox(self, fill_value, g) ==
    LET ns == ngkpt_and_shifts(self)
    IN  IF ns.raised # "" THEN [raised |-> ns.raised]
        ELSE LET ngkpt     == ns.ngkpt
                 shifts    == ns.shifts
                 k_indices == kpoints_indices(self.kpoints, ngkpt)
                 a_data    == new_array(self.nb, ngkpt, fill_value, g)
             IN  IF self.nb > 0 /\ \E i \in DOMAIN k_indices : ~InBounds(k_indices[i], ngkpt)
                 THEN [raised |-> "IndexError"]
                 ELSE [raised |-> "",
                       a_data |-> a_outer_loop(a_data, self.a_kn, k_indices, self.nb, 0),
                       ngkpt  |-> ngkpt,
                       shifts |-> shifts]

\* b_data[nu, ix, iy, iz] = b_cplx
b_store_mut(b_data, nu, q_inds, b_cplx) ==
    [b_data EXCEPT ![<<nu, q_inds[1], q_inds[3], q_inds[2]>>] = b_cplx]
b_store(b_data, nu, q_inds, b_cplx) ==
    [b_data EXCEPT ![<<nu, q_inds[1], q_inds[2], q_inds[3]>>] = b_cplx]

\* for b_cplx, q_inds in zip(self.b_qnu[:,nu], q_indices), from position i on
RECURSIVE b_inner_loop(_, _, _, _, _)
b_inner_loop(b_data, b_qnu, q_indices, nu, i) ==
    IF i \notin DOMAIN b_qnu \/ i \notin DOMAIN q_indices THEN b_data
    ELSE b_inner_loop(b_store(b_data, nu, q_indices[i], b_qnu[i][nu]), b_qnu, q_indices, nu, i + 1)

\* for nu in range(natom3), from mode nu on
RECURSIVE b_outer_loop(_, _, _, _, _)
b_outer_loop(b_data, b_qnu, q_indices, natom3, nu) ==
    IF nu >= natom3 THEN b_data
    ELSE b_outer_loop(b_inner_loop(b_data, b_qnu, q_indices, nu, 0), b_qnu, q_indices, natom3, nu + 1)

\* the shifts insert_b_inbox returns
b_shifts_mut(self) == Polaron_varpeq(self).ebands.kpoints.ksampling.shifts[1]
b_shifts(self) == <<0, 0, 0>>

insert_b_inbox(self, fill_value, g) ==
    LET ngqpt     == Polaron_varpeq(self).r.ngqpt
        shifts    == b_shifts(self)
        q_indices == kpoints_indices(self.qpoints, ngqpt)
        natom3    == 3 * Polaron_varpeq(self).structure.natom
        b_data    == new_array(natom3, ngqpt, fill_value, g)
    IN  IF \E i \in DOMAIN q_indices : ~InBounds(q_indices[i], ngqpt)
        THEN [raised |-> "IndexError"]
        ELSE [raised |-> "",
              b_data |-> b_outer_loop(b_data, self.b_qnu, q_indices, natom3, 0),
              ngqpt  |-> ngqpt,
              shifts |-> shifts]

(***************************************************************************)
(* Polaron.get_a2_interpolator and Polaron.get_b2_interpolator             *)
(***************************************************************************)
\* np.abs(data) ** 2
abs2_data(data) == [cell \in DOMAIN data |-> Abs2(data[cell])]

\* BzRegularGridInterpolator(structure, shifts, datak, method="linear")
BzRegularGridInterpolator(structure, shifts, datak, method) ==
    [structure |-> structure, shifts |-> shifts, datak |-> datak, method |-> method]

get_a2_interpolator(self, g) ==
    LET r == insert_a_inbox(self, None, g)
    IN  IF r.raised # "" THEN [raised |-> r.raised]
        ELSE [raised |-> "",
              value  |-> BzRegularGridInterpolator(Polaron_varpeq(self).structure, r.shifts,
                                                   abs2_data(r.a_data), "linear")]

get_b2_interpolator(self, g) ==
    LET r == insert_b_inbox(self, None, g)
    IN  IF r.raised # "" THEN [raised |-> r.raised]
        ELSE [raised |-> "",
              value  |-> BzRegularGridInterpolator(Polaron_varpeq(self).structure, r.shifts,
                                                   abs2_data(r.b_data), "linear")]

(***************************************************************************)
(* Name resolution.  A name a function reads is one of its parameters or   *)
(* local variables, or a name bound at module level (lines 9-37, 39, 89,   *)
(* 96-105, 110, 285, 750, 838); reading any other name raises NameError.   *)
(***************************************************************************)
ModuleGlobals ==
    {"dataclasses", "np", "pd", "abu", "defaultdict", "marquee", "lazy_property", "cprint",
     "Function1D", "Structure", "kpoints_indices", "map_grid2ibz", "kmesh_from_mpdivs",
     "AbinitNcFile", "Has_Structure", "Has_ElectronBands", "NotebookWriter", "PathLike",
     "add_fig_kwargs", "get_ax_fig_plt", "get_axarray_fig_plt", "set_axlims", "set_visible",
     "rotate_ticklabels", "ax_append_title", "set_ax_xylabels", "linestyles", "Marker",
     "set_grid_legend", "ElectronBands", "RobotWithEbands", "PhononBands", "DdbFile",
     "Figure", "BzRegularGridInterpolator", "gaussian", "bxsf_write", "Robot",
     "BaseEphReader", "EffMassAnalyzer", "FrohlichAnalyzer", "Entry", "_ALL_ENTRIES",
     "VarpeqFile", "Polaron", "VarpeqReader", "VarpeqRobot"}

\* the first of the names, read in this order, that is not bound; "" if all are
RECURSIVE FirstUnbound(_, _)
FirstUnbound(names, locals) ==
    IF names = <<>> THEN ""
    ELSE IF Head(names) \notin locals \cup ModuleGlobals THEN Head(names)
    ELSE FirstUnbound(Tail(names), locals)

\* the attributes of a VarpeqFile: those set or defined at lines 128-282 and
\* those of AbinitNcFile, Has_Structure, Has_ElectronBands and NotebookWriter
\* that the module uses
VarpeqFile_attrs ==
    {"from_file", "r", "ebands", "structure", "close", "polaron_spin", "params", "to_string",
     "get_last_iteration_dict_ev", "get_title_spin", "plot_scf_cycle", "yield_figs",
     "write_notebook", "filepath", "filestat", "nsppol", "get_nbformat_nbv_nb",
     "_write_nb_nbpath"}

(***************************************************************************)
(* Polaron.write_a2_bxsf and Polaron.write_b2_bxsf                         *)
(* np_product tells whether the installed numpy still has np.product       *)
(* (removed in numpy 2.0).                                                 *)
(***************************************************************************)
RECURSIVE SumOver(_, _)
SumOver(f, S) ==
    IF S = {} THEN 0
    ELSE LET x == CHOOSE y \in S : TRUE IN f[x] + SumOver(f, S \ {x})

\* array.mean()
Mean(data) == Rat(SumOver(data, DOMAIN data), Cardinality(DOMAIN data))

\* bxsf_write(filepath, structure, nsppol, nband, ngkpt, emesh_sbk, fermie, unit);
\* num_states, the nband both callers pass, is bound nowhere: None stands for it
bxsf_write(filepath, structure, nsppol, nband, ngkpt, data, fermie, unit) ==
    [filepath |-> filepath, structure |-> structure, nsppol |-> nsppol, nband |-> nband,
     ngkpt |-> ngkpt, data |-> data, fermie |-> fermie, unit |-> unit]

write_a2_bxsf(self, filepath, np_product) ==
    LET r == insert_a_inbox(self, <<0, 0>>, 0)
    IN  IF r.raised # "" THEN [raised |-> r.raised]
        ELSE IF ~np_product THEN [raised |-> "AttributeError", name |-> "product"]
        ELSE LET a2_data == abs2_data(r.a_data)
                 fermie  == Mean(a2_data)
                 locals  == {"self", "filepath", "a_data", "ngkpt", "shifts", "nkbz",
                             "a2_data", "fermie"}
                 unbound == FirstUnbound(<<"bxsf_write", "filepath", "self", "num_states",
                                           "ngkpt", "a2_data", "fermie">>, locals)
             IN  IF unbound # "" THEN [raised |-> "NameError", name |-> unbound]
                 ELSE [raised  |-> "",
                       written |-> bxsf_write(filepath, Polaron_varpeq(self).structure, 1, None,
                                              r.ngkpt, a2_data, fermie, "Ha")]

write_b2_bxsf(self, filepath, np_product) ==
    LET r == insert_b_inbox(self, <<0, 0>>, 0)
    IN  IF r.raised # "" THEN [raised |-> r.raised]
        ELSE IF ~np_product THEN [raised |-> "AttributeError", name |-> "product"]
        ELSE LET b2_data  == abs2_data(r.b_data)
                 fermie   == Mean(b2_data)
                 locals0  == {"self", "filepath", "b_data", "ngqpt", "shifts"}
                 unbound0 == FirstUnbound(<<"np", "nqkpt">>, locals0)
                 locals   == locals0 \cup {"nqbz", "b2_data", "fermie"}
                 unbound  == FirstUnbound(<<"bxsf_write", "filepath", "self", "num_states",
                                            "ngqpt", "b2_data", "fermie">>, locals)
             IN  IF unbound0 # "" THEN [raised |-> "NameError", name |-> unbound0]
                 ELSE IF unbound # "" THEN [raised |-> "NameError", name |-> unbound]
                 ELSE [raised  |-> "",
                       written |-> bxsf_write(filepath, Polaron_varpeq(self).structure, 1, None,
                                              r.ngqpt, b2_data, fermie, "Ha")]

(***************************************************************************)
(* VarpeqFile.get_last_iteration_dict_ev                                   *)
(***************************************************************************)
\* dict(zip(keys, values)): the pairs up to the shorter of the two
dict_zip(keys, values) ==
    LET both == DOMAIN keys \cap DOMAIN values
    IN  [k \in {keys[i] : i \in both} |->
            \* a key met twice keeps its last value
            LET i == CHOOSE j \in both : keys[j] = k /\ \A l \in both : keys[l] = k => l <= j
            IN  values[i]]

get_last_iteration_dict_ev(self, spin) ==
    LET nstep2cv_spin  == read_value(self.r, "nstep2cv")
        iter_rec_spin  == read_value(self.r, "iter_rec")
        nstep2cv       == nstep2cv_spin[spin]
        last_iteration == [j \in DOMAIN iter_rec_spin[spin][nstep2cv - 1] |->
                              RatMul(RatInt(iter_rec_spin[spin][nstep2cv - 1][j]), Ha_eV)]
    IN  dict_zip(ALL_ENTRIES_keys, last_iteration)

(***************************************************************************)
(* VarpeqFile.get_title_spin and VarpeqFile.plot_scf_cycle                 *)
(***************************************************************************)
get_title_spin(self, spin) ==
    LET locals == {"self", "spin", "pre"}
    IN  IF self.ebands.nsppol # 1 /\ "spin" \notin VarpeqFile_attrs
        THEN [raised |-> "AttributeError", name |-> "spin"]
        ELSE LET pre     == IF self.ebands.nsppol = 1 THEN "" ELSE "spin="
                 unbound == FirstUnbound(<<"with_gaps">>, locals)
             IN  IF unbound # "" THEN [raised |-> "NameError", name |-> unbound]
                 ELSE [raised |-> "", value |-> <<pre, self.r.varpeq_pkind>>]

\* the panels (spin, iax) in the order the two loops visit them
Panels(nsppol) == [i \in Range(2 * nsppol) |-> <<i \div 2, i % 2>>]

plot_scf_cycle(self) ==
    LET nsppol == self.r.nsppol
        panels == Panels(nsppol)
        title(i) == get_title_spin(self, panels[i][1])
        bad    == {i \in DOMAIN panels : title(i).raised # ""}
    IN  IF bad # {}
        THEN LET i == CHOOSE j \in bad : \A l \in bad : j <= l
             IN  [raised |-> title(i).raised, name |-> title(i).name, panel |-> panels[i]]
        ELSE [raised |-> "", fig |-> [i \in DOMAIN panels |-> title(i).value]]

(***************************************************************************)
(* The calls on an open file.  Reaching a Polaron goes through the lazy    *)
(* property polaron_spin, which builds the list once and caches it.        *)
(***************************************************************************)
FillValues == {None, <<0, 0>>, <<5, 0>>}

Spins == Range(varpeq.r.nsppol)

\* self.polaron_spin
polaron_spin_get == IF polaron_spin = <<>> THEN polaron_spin_list(varpeq) ELSE polaron_spin

PolaronSpin ==
    /\ polaron_spin' = polaron_spin_get
    /\ ret' = [op |-> "polaron_spin", out |-> [raised |-> "", value |-> polaron_spin']]
    /\ UNCHANGED <<varpeq, robot>>

InsertAInbox ==
    \E spin \in Spins, fill_value \in FillValues, g \in GarbageSeeds :
        /\ fill_value # None => g = 0
        /\ polaron_spin' = polaron_spin_get
        /\ ret' = [op |-> "insert_a_inbox", spin |-> spin, fill_value |-> fill_value,
                   out |-> insert_a_inbox(polaron_spin'[spin], fill_value, g)]
        /\ UNCHANGED <<varpeq, robot>>

InsertBInbox ==
    \E spin \in Spins, fill_value \in FillValues, g \in GarbageSeeds :
        /\ fill_value # None => g = 0
        /\ polaron_spin' = polaron_spin_get
        /\ ret' = [op |-> "insert_b_inbox", spin |-> spin, fill_value |-> fill_value,
                   out |-> insert_b_inbox(polaron_spin'[spin], fill_value, g)]
        /\ UNCHANGED <<varpeq, robot>>

GetA2Interpolator ==
    \E spin \in Spins, g \in GarbageSeeds :
        /\ polaron_spin' = polaron_spin_get
        /\ ret' = [op |-> "get_a2_interpolator", spin |-> spin,
                   out |-> get_a2_interpolator(polaron_spin'[spin], g)]
        /\ UNCHANGED <<varpeq, robot>>

GetB2Interpolator ==
    \E spin \in Spins, g \in GarbageSeeds :
        /\ polaron_spin' = polaron_spin_get
        /\ ret' = [op |-> "get_b2_interpolator", spin |-> spin,
                   out |-> get_b2_interpolator(polaron_spin'[spin], g)]
        /\ UNCHANGED <<varpeq, robot>>

WriteA2Bxsf ==
    \E spin \in Spins, np_product \in BOOLEAN :
        /\ polaron_spin' = polaron_spin_get
        /\ ret' = [op |-> "write_a2_bxsf", spin |-> spin,
                   out |-> write_a2_bxsf(polaron_spin'[spin], "a2.bxsf", np_product)]
        /\ UNCHANGED <<varpeq, robot>>

WriteB2Bxsf ==
    \E spin \in Spins, np_product \in BOOLEAN :
        /\ polaron_spin' = polaron_spin_get
        /\ ret' = [op |-> "write_b2_bxsf", spin |-> spin,
                   out |-> write_b2_bxsf(polaron_spin'[spin], "b2.bxsf", np_product)]
        /\ UNCHANGED <<varpeq, robot>>

GetLastIterationDictEv ==
    \E spin \in Spins :
        /\ ret' = [op |-> "get_last_iteration_dict_ev", spin |-> spin,
                   out |-> [raised |-> "", value |-> get_last_iteration_dict_ev(varpeq, spin)]]
        /\ UNCHANGED <<varpeq, polaron_spin, robot>>

GetTitleSpin ==
    \E spin \in Spins :
        /\ ret' = [op |-> "get_title_spin", spin |-> spin, out |-> get_title_spin(varpeq, spin)]
        /\ UNCHANGED <<varpeq, polaron_spin, robot>>

PlotScfCycle ==
    /\ ret' = [op |-> "plot_scf_cycle", out |-> plot_scf_cycle(varpeq)]
    /\ UNCHANGED <<varpeq, polaron_spin, robot>>

Init ==
    /\ varpeq \in {VarpeqFile(nc) : nc \in NcFiles}
    /\ polaron_spin = <<>>
    /\ robot = <<>>
    /\ ret = [op |-> "none"]

Next ==
    \/ PolaronSpin
    \/ InsertAInbox
    \/ InsertBInbox
    \/ GetA2Interpolator
    \/ GetB2Interpolator
    \/ WriteA2Bxsf
    \/ WriteB2Bxsf
    \/ GetLastIterationDictEv
    \/ GetTitleSpin
    \/ PlotScfCycle

Spec == Init /\ [][Next]_vars

(***************************************************************************)
(* VarpeqRobot                                                             *)
(***************************************************************************)
\* np.prod(ngkpt)
np_prod(ngkpt) == ngkpt[1] * ngkpt[2] * ngkpt[3]

\* sort_func of get_kdata_spin
sort_func(abifile) == np_prod(abifile.ebands.kpoints.ksampling.mpdivs)

\* sorted(items, key=lambda t: t[2], reverse=reverse): a stable sort, which
\* keeps the items of equal key in their order also when reversed
RECURSIVE sorted_insert(_, _, _)
sorted_insert(done, item, reverse) ==
    IF done = <<>> THEN <<item>>
    ELSE LET last == done[Len(done)]
             before == IF reverse THEN last.param >= item.param ELSE last.param <= item.param
         IN  IF before THEN Append(done, item)
             ELSE Append(sorted_insert(SubSeq(done, 1, Len(done) - 1), item, reverse), last)

RECURSIVE sorted_from(_, _, _)
sorted_from(done, items, reverse) ==
    IF items = <<>> THEN done
    ELSE sorted_from(sorted_insert(done, Head(items), reverse), Tail(items), reverse)

\* Robot.sortby(func, reverse, unpack=True): the (label, abifile, param) items sorted by param
sortby(items, reverse) ==
    sorted_from(<<>>, [i \in DOMAIN items |->
        [label |-> items[i].label, abifile |-> items[i].abifile,
         param |-> sort_func(items[i].abifile)]], reverse)

\* the call of line 872
kdata_sortby_mut(items) == sortby(items, FALSE)
kdata_sortby(items) == sortby(items, TRUE)

\* x = 1.0 / (nk_tot * abifile.structure.lattice.volume ** (1/3))
kdata_x(nk_tot, volume) == Rat(1, nk_tot * CubeRoot(volume))

get_kdata_spin(items, spin) ==
    LET sorted == kdata_sortby(items)
        n      == Len(sorted)
        file(i) == sorted[i + 1].abifile
        ngkpt(i) == file(i).ebands.kpoints.ksampling.mpdivs
        last(i) == get_last_iteration_dict_ev(file(i), spin)
        keys   == UNION {DOMAIN last(i) : i \in Range(n)}
    IN  [k \in keys \cup {"ngkpt", "nk_tot", "xs_inv_bohr"} |->
            IF k = "ngkpt" THEN [i \in Range(n) |-> ngkpt(i)]
            ELSE IF k = "nk_tot" THEN [i \in Range(n) |-> np_prod(ngkpt(i))]
            ELSE IF k = "xs_inv_bohr"
            THEN [i \in Range(n) |-> kdata_x(np_prod(ngkpt(i)), file(i).structure.lattice.volume)]
            ELSE [i \in Range(n) |-> last(i)[k]]]

(***************************************************************************)
(* np.polyfit(x, y, deg=1) and np.poly1d                                   *)
(***************************************************************************)
RECURSIVE RatSum(_, _)
RatSum(f, n) == IF n = 0 THEN RatInt(0) ELSE RatAdd(RatSum(f, n - 1), f[n - 1])

\* the least squares line <<slope, intercept>> through the points; when all
\* the abscissas are equal the problem has rank 1 and lstsq returns the
\* solution of least norm of the scaled problem: half the mean at x = 0
np_polyfit(xs, ys) ==
    LET n   == Cardinality(DOMAIN xs)
        sx  == RatSum(xs, n)
        sy  == RatSum(ys, n)
        sxx == RatSum([i \in Range(n) |-> RatMul(xs[i], xs[i])], n)
        sxy == RatSum([i \in Range(n) |-> RatMul(xs[i], ys[i])], n)
        det == RatSub(RatMul(RatInt(n), sxx), RatMul(sx, sx))
    IN  IF det[1] = 0
        THEN <<RatDiv(sy, RatMul(RatInt(2), sx)), RatDiv(sy, RatInt(2 * n))>>
        ELSE <<RatDiv(RatSub(RatMul(RatInt(n), sxy), RatMul(sx, sy)), det),
               RatDiv(RatSub(RatMul(sy, sxx), RatMul(sx, sxy)), det)>>

\* np.poly1d(c)(x)
poly1d(c, x) == RatAdd(RatMul(c[1], x), c[2])

(***************************************************************************)
(* VarpeqRobot.get_makov_payne_df_spin                                     *)
(***************************************************************************)
\* xs[:nn+1]
fit_points_mut(array, nn) == Slice(array, nn)
fit_points(array, nn) == Slice(array, nn + 1)

\* list(i + 1 for i in range(1, len(xs)))
df_index(n) == [r \in Range(n - 1) |-> (r + 1) + 1]

get_makov_payne_df_spin(items, spin) ==
    LET kdata == get_kdata_spin(items, spin)
        xs    == kdata["xs_inv_bohr"]
        n     == Cardinality(DOMAIN xs)
        \* d[ylabel]: one value for each nn in range(1, len(xs))
        col(ylabel) ==
            [r \in Range(n - 1) |->
                poly1d(np_polyfit(fit_points(xs, r + 1), fit_points(kdata[ylabel], r + 1)),
                       RatInt(0))]
        \* a defaultdict gets a key when a value is first appended to it
        d == [ylabel \in (IF n > 1 THEN {ALL_ENTRIES_keys[i] : i \in DOMAIN ALL_ENTRIES_keys}
                                    ELSE {}) |-> col(ylabel)]
    IN  [columns |-> d, index |-> df_index(n), index_name |-> "npts"]

(***************************************************************************)
(* The calls on a robot.                                                   *)
(***************************************************************************)
\* self.getattr_alleq("nsppol")
robot_nsppol == robot[1].abifile.r.nsppol

GetKdataSpin ==
    \E spin \in Range(robot_nsppol) :
        /\ ret' = [op |-> "get_kdata_spin", spin |-> spin,
                   out |-> [raised |-> "", value |-> get_kdata_spin(robot, spin)]]
        /\ UNCHANGED <<varpeq, polaron_spin, robot>>

GetMakovPayneDfSpin ==
    \E spin \in Range(robot_nsppol) :
        /\ ret' = [op |-> "get_makov_payne_df_spin", spin |-> spin,
                   out |-> [raised |-> "", value |-> get_makov_payne_df_spin(robot, spin)]]
        /\ UNCHANGED <<varpeq, polaron_spin, robot>>

\* plot_kconv: the abscissas it plots for each spin and the label it gives them
PlotKconv ==
    /\ ret' = [op |-> "plot_kconv",
               out |-> [raised |-> "",
                        xs     |-> [spin \in Range(robot_nsppol) |->
                                       get_kdata_spin(robot, spin)["xs_inv_bohr"]],
                        xlabel |-> "Inverse supercell size (Bohr$^-1$)"]]
    /\ UNCHANGED <<varpeq, polaron_spin, robot>>

\* the file number i of a robot: spin-polarized, Gamma-centered mesh, cubic
\* cell of volume 8 Ang^3, energies that differ from file to file
RobotFile(i, mesh) ==
    VarpeqFile(NcFile(2, [mpdivs |-> mesh, shifts |-> <<ShiftZero>>], OnePoint, 2,
                      <<1, 1, 1>>, OnePoint, 1, 8, i * i))

\* the meshes of the files of a robot: different numbers of k-points, and
\* two meshes with the same number
RobotMeshes ==
    {<<a, 1, 1>> : a \in 1 .. MaxDiv} \cup {<<1, MaxDiv, 1>>, <<MaxDiv, MaxDiv, 1>>}

InitRobot ==
    /\ \E n \in 1 .. MaxFiles : \E meshes \in [1 .. n -> RobotMeshes] :
           robot = [i \in 1 .. n |-> [label |-> i, abifile |-> RobotFile(i, meshes[i])]]
    /\ varpeq = None
    /\ polaron_spin = <<>>
    /\ ret = [op |-> "none"]

NextRobot ==
    \/ GetKdataSpin
    \/ GetMakovPayneDfSpin
    \/ PlotKconv

SpecRobot == InitRobot /\ [][NextRobot]_vars

(***************************************************************************)
(* Properties                                                              *)
(***************************************************************************)
\* the k-sampling of the open file
KSampling == varpeq.ebands.kpoints.ksampling

\* position i of the index list inds is the only one with its grid index
Unshared(inds, i) == \A j \in DOMAIN inds : j # i => inds[j] # inds[i]

\* C1: when insert_a_inbox returns, the array has shape (nb, nx, ny, nz) with
\* (nx, ny, nz) = ngkpt; for every band ib and every k-point position i whose
\* grid index kpoints_indices(kpoints, ngkpt)[i] no other k-point has,
\* a_data[ib, ix, iy, iz] = a_kn[i, ib]; and the ngkpt and the shifts of the
\* k-sampling are returned unchanged.
C1_InsertAInbox ==
    (ret.op = "insert_a_inbox" /\ ret.out.raised = "") =>
        LET self      == polaron_spin[ret.spin]
            ngkpt     == KSampling.mpdivs
            k_indices == kpoints_indices(self.kpoints, ngkpt)
        IN  /\ DOMAIN ret.out.a_data = Cells(self.nb, ngkpt)
            /\ \A ib \in Range(self.nb), i \in Range(self.nk) :
                   Unshared(k_indices, i) =>
                       ret.out.a_data[<<ib, k_indices[i][1], k_indices[i][2], k_indices[i][3]>>]
                           = self.a_kn[i][ib]
            /\ ret.out.ngkpt = ngkpt
            /\ ret.out.shifts = KSampling.shifts

\* insert_a_inbox has returned the array of two bands and two k-points that
\* lie in different cells of a mesh with more than one division
C1_Witness ==
    /\ ret.op = "insert_a_inbox" /\ ret.out.raised = ""
    /\ polaron_spin[ret.spin].nk = 2 /\ polaron_spin[ret.spin].nb = 2
    /\ KSampling.mpdivs[1] > 1
    /\ Unshared(kpoints_indices(polaron_spin[ret.spin].kpoints, KSampling.mpdivs), 0)

\* C2: when insert_b_inbox returns, the array has shape (3*natom, nx, ny, nz)
\* with (nx, ny, nz) = the reader's ngqpt; the returned shifts are [0, 0, 0]
\* whatever the shifts of the k-mesh; and for every mode nu and every q-point
\* position i whose grid index no other q-point has,
\* b_data[nu, ix, iy, iz] = b_qnu[i, nu].
C2_InsertBInbox ==
    (ret.op = "insert_b_inbox" /\ ret.out.raised = "") =>
        LET self      == polaron_spin[ret.spin]
            ngqpt     == varpeq.r.ngqpt
            natom3    == 3 * varpeq.structure.natom
            q_indices == kpoints_indices(self.qpoints, ngqpt)
        IN  /\ DOMAIN ret.out.b_data = Cells(natom3, ngqpt)
            /\ \A nu \in Range(natom3), i \in Range(self.nq) :
                   Unshared(q_indices, i) =>
                       ret.out.b_data[<<nu, q_indices[i][1], q_indices[i][2], q_indices[i][3]>>]
                           = self.b_qnu[i][nu]
            /\ ret.out.ngqpt = ngqpt
            /\ ret.out.shifts = <<0, 0, 0>>

\* insert_b_inbox has returned the array of two q-points that lie in
\* different cells along y, in a file whose k-mesh is shifted
C2_Witness ==
    /\ ret.op = "insert_b_inbox" /\ ret.out.raised = ""
    /\ polaron_spin[ret.spin].nq = 2
    /\ KSampling.shifts[1] # <<0, 0, 0>>
    /\ LET q_indices == kpoints_indices(polaron_spin[ret.spin].qpoints, varpeq.r.ngqpt)
       IN  q_indices[0][2] # q_indices[1][2]

\* the files of the robot in the order get_kdata_spin gives them
KdataOf(spin) == get_kdata_spin(robot, spin)

\* the value at x = 0 of the degree-1 fit through the first n points
FitAtZero(xs, ys, n) == poly1d(np_polyfit(Slice(xs, n), Slice(ys, n)), RatInt(0))

EntryNames == {ALL_ENTRIES_LIST[i].name : i \in DOMAIN ALL_ENTRIES_LIST}

\* the rows of the dataframe: N-1 rows indexed npts = 2..N, the cell of row
\* npts = n of a column being the fit through the first n points
DfRows(df, spin) ==
    LET kdata == KdataOf(spin)
        n     == Len(robot)
    IN  /\ df.index = [r \in Range(n - 1) |-> r + 2]
        /\ df.index_name = "npts"
        /\ \A ylabel \in DOMAIN df.columns :
               /\ DOMAIN df.columns[ylabel] = Range(n - 1)
               /\ \A r \in Range(n - 1) :
                      df.columns[ylabel][r] = FitAtZero(kdata["xs_inv_bohr"], kdata[ylabel], r + 2)

\* C3 as claimed: for a robot with N files get_makov_payne_df_spin returns a
\* dataframe of N-1 rows indexed npts = 2..N (no row when N = 1) with one
\* column for each of E_pol, E_el, E_ph, elph, epsilon, the cell of row
\* npts = n being the value at x = 0 of the degree-1 fit through the first n
\* points of the data as ordered by get_kdata_spin.
C3_AsClaimed ==
    ret.op = "get_makov_payne_df_spin" =>
        /\ DfRows(ret.out.value, ret.spin)
        /\ DOMAIN ret.out.value.columns = EntryNames

\* C3 amended: the same for N >= 2; for N = 1 the dataframe has no row and
\* no column.
C3_MakovPayneDf ==
    ret.op = "get_makov_payne_df_spin" =>
        /\ DfRows(ret.out.value, ret.spin)
        /\ Len(robot) >= 2 => DOMAIN ret.out.value.columns = EntryNames
        /\ Len(robot) = 1 => DOMAIN ret.out.value.columns = {}

\* the dataframe of a robot of three files of three different mesh densities
\* has been returned
C3_Witness ==
    /\ ret.op = "get_makov_payne_df_spin"
    /\ Len(robot) = 3
    /\ \A i, j \in 1 .. 3 : i # j => sort_func(robot[i].abifile) # sort_func(robot[j].abifile)
    /\ DOMAIN ret.out.value.index = Range(2)

\* the number of positions of the list f that hold v
Count(f, v) == Cardinality({i \in DOMAIN f : f[i] = v})

\* C4: in the dictionary get_kdata_spin returns, nk_tot[i] >= nk_tot[i+1] for
\* every consecutive pair, nk_tot being the products of the three k-mesh
\* divisions of the files of the robot, in whatever order they were added.
C4_KdataSorted ==
    ret.op = "get_kdata_spin" =>
        LET nk_tot == ret.out.value["nk_tot"]
            n      == Len(robot)
            prods  == [i \in 1 .. n |-> np_prod(robot[i].abifile.ebands.kpoints.ksampling.mpdivs)]
        IN  /\ DOMAIN nk_tot = Range(n)
            /\ \A i \in Range(n - 1) : nk_tot[i] >= nk_tot[i + 1]
            /\ \A i \in 1 .. n : Count(nk_tot, prods[i]) = Count(prods, prods[i])

\* get_kdata_spin has returned for three files added sparsest first
C4_Witness ==
    /\ ret.op = "get_kdata_spin"
    /\ Len(robot) = 3
    /\ sort_func(robot[1].abifile) < sort_func(robot[2].abifile)
    /\ sort_func(robot[2].abifile) < sort_func(robot[3].abifile)

\* the values of the last iteration of the file for the spin, in eV
LastIterationEv(file, spin) ==
    LET rec == file.r.nc.iter_rec[spin][file.r.nc.nstep2cv[spin] - 1]
    IN  [j \in DOMAIN rec |-> RatMul(RatInt(rec[j]), Ha_eV)]

\* C5: get_last_iteration_dict_ev(spin) returns the dictionary that maps the
\* latex label of each entry (E_pol, E_el, E_ph, elph, epsilon) to the value
\* of the last iteration for the spin, in eV.
C5_LatexKeys ==
    ret.op = "get_last_iteration_dict_ev" =>
        /\ DOMAIN ret.out.value = {ALL_ENTRIES_LIST[i].latex : i \in DOMAIN ALL_ENTRIES_LIST}
        /\ \A i \in DOMAIN ALL_ENTRIES_LIST :
               ret.out.value[ALL_ENTRIES_LIST[i].latex] = LastIterationEv(varpeq, ret.spin)[i - 1]

\* C6: for every spin of the file get_title_spin(spin) returns a title
\* without raising, and plot_scf_cycle, which calls it for every spin and
\* panel, returns its figure.
C6_TitleReturns ==
    /\ ret.op = "get_title_spin" => ret.out.raised = ""
    /\ ret.op = "plot_scf_cycle" =>
           /\ ret.out.raised = ""
           /\ DOMAIN ret.out.fig = Range(2 * varpeq.r.nsppol)

\* the cells of a grid of n0 rows that no point of the list maps to
Unmapped(n0, ngkpt, inds) ==
    {cell \in Cells(n0, ngkpt) : \A i \in DOMAIN inds : <<cell[2], cell[3], cell[4]>> # inds[i]}

\* C7: on a Gamma-centered mesh write_a2_bxsf and write_b2_bxsf run to
\* completion and hand to the BXSF writer the squared modulus of the
\* scattered coefficients on the full grid, 0 at every cell that no k-point
\* (q-point) of the list maps to.
C7_BxsfWritten ==
    /\ (ret.op = "write_a2_bxsf" /\ KSampling.mpdivs # None /\ KSampling.shifts = <<ShiftZero>>) =>
           LET self == polaron_spin[ret.spin]
               r    == insert_a_inbox(self, <<0, 0>>, 0)
           IN  /\ ret.out.raised = ""
               /\ ret.out.written.data = abs2_data(r.a_data)
               /\ \A cell \in Unmapped(self.nb, KSampling.mpdivs,
                                       kpoints_indices(self.kpoints, KSampling.mpdivs)) :
                      ret.out.written.data[cell] = 0
    /\ (ret.op = "write_b2_bxsf" /\ KSampling.mpdivs # None /\ KSampling.shifts = <<ShiftZero>>) =>
           LET self == polaron_spin[ret.spin]
               r    == insert_b_inbox(self, <<0, 0>>, 0)
           IN  /\ ret.out.raised = ""
               /\ ret.out.written.data = abs2_data(r.b_data)
               /\ \A cell \in Unmapped(3 * varpeq.structure.natom, varpeq.r.ngqpt,
                                       kpoints_indices(self.qpoints, varpeq.r.ngqpt)) :
                      ret.out.written.data[cell] = 0

\* C8: with no diagonal mesh divisions (mpdivs is None) or with more than
\* one shift, insert_a_inbox, get_a2_interpolator and write_a2_bxsf raise the
\* ValueError of ngkpt_and_shifts and return no array; with diagonal
\* divisions and exactly one shift none of them raises ValueError.
C8_ShiftsChecked ==
    ret.op \in {"insert_a_inbox", "get_a2_interpolator", "write_a2_bxsf"} =>
        /\ (KSampling.mpdivs = None \/ Len(KSampling.shifts) > 1) =>
               /\ ret.out.raised = "ValueError"
               /\ DOMAIN ret.out = {"raised"}
        /\ (KSampling.mpdivs # None /\ Len(KSampling.shifts) = 1) =>
               ret.out.raised # "ValueError"

\* insert_a_inbox has raised ValueError on a diagonal mesh with two shifts
C8_Witness ==
    /\ ret.op = "insert_a_inbox"
    /\ KSampling.mpdivs # None /\ Len(KSampling.shifts) = 2
    /\ ret.out.raised = "ValueError"

\* C9: polaron_spin is a list of nsppol Polarons, the one at position s has
\* spin = s and holds the data of spin s only: its numbers of points and
\* bands, its band range, the first nk k-points, the first nq q-points and
\* the coefficients a_spin[s, :nk, :nb] and b_spin[s, :nq].
C9_PolaronSpin ==
    polaron_spin # <<>> =>
        LET nc == varpeq.r.nc
        IN  /\ DOMAIN polaron_spin = Range(nc.nsppol)
            /\ \A s \in Range(nc.nsppol) :
                   LET p == polaron_spin[s]
                   IN  /\ p.spin = s
                       /\ p.nk = nc.nk_spin[s] /\ p.nq = nc.nq_spin[s]
                       /\ p.bstart = nc.brange_spin[s][1] - 1
                       /\ p.bstop = nc.brange_spin[s][2]
                       /\ p.nb = p.bstop - p.bstart
                       /\ p.kpoints = [i \in Range(p.nk) |-> nc.kpts_spin[s][i]]
                       /\ p.qpoints = [i \in Range(p.nq) |-> nc.qpts_spin[s][i]]
                       /\ p.a_kn = [i \in Range(p.nk) |-> [ib \in Range(p.nb) |-> nc.a_spin[s][i][ib]]]
                       /\ p.b_qnu = [i \in Range(p.nq) |-> nc.b_spin[s][i]]

\* the list of a spin-polarized file whose spins differ in their numbers of
\* k-points and of bands has been built
C9_Witness ==
    /\ polaron_spin # <<>>
    /\ varpeq.r.nsppol = 2
    /\ polaron_spin[0].nk # polaron_spin[1].nk
    /\ polaron_spin[0].nb # polaron_spin[1].nb

\* x * x * x
RatCube(x) == RatMul(x, RatMul(x, x))

\* C10: xs_inv_bohr[i] is the inverse supercell size of file i in Bohr^-1:
\* 1 / (nk_tot * V)^(1/3) with V the volume of the unit cell in Bohr^3.
C10_InverseSupercellSize ==
    ret.op = "get_kdata_spin" =>
        LET kdata  == ret.out.value
            sorted == kdata_sortby(robot)
        IN  \A i \in DOMAIN kdata["xs_inv_bohr"] :
                LET vol_bohr == RatMul(RatInt(sorted[i + 1].abifile.structure.lattice.volume),
                                       RatCube(Ang_Bohr))
                IN  RatCube(kdata["xs_inv_bohr"][i])
                        = RatInv(RatMul(RatInt(kdata["nk_tot"][i]), vol_bohr))

\* the cell is the grid index of no point of the list
Unlisted(inds, cell) == \A i \in DOMAIN inds : inds[i] # <<cell[2], cell[3], cell[4]>>

\* the array and the grid indices of the listed points of the call that returned
InboxData == IF ret.op = "insert_a_inbox" THEN ret.out.a_data ELSE ret.out.b_data
InboxIndices ==
    IF ret.op = "insert_a_inbox"
    THEN kpoints_indices(polaron_spin[ret.spin].kpoints, KSampling.mpdivs)
    ELSE kpoints_indices(polaron_spin[ret.spin].qpoints, varpeq.r.ngqpt)

\* C11: when insert_a_inbox or insert_b_inbox returns from a call with a
\* fill_value, every cell of the array whose grid index is the index of no
\* point of the k/q list of the spin holds fill_value, for every band or mode.
C11_FillValueKept ==
    (ret.op \in {"insert_a_inbox", "insert_b_inbox"} /\ ret.out.raised = ""
        /\ ret.fill_value # None) =>
        \A cell \in DOMAIN InboxData :
            Unlisted(InboxIndices, cell) => InboxData[cell] = ret.fill_value

\* insert_a_inbox has returned with fill_value 5 for two k-points in two
\* cells of a mesh that has a cell without k-point
C11_Witness ==
    /\ ret.op = "insert_a_inbox" /\ ret.out.raised = ""
    /\ ret.fill_value = <<5, 0>>
    /\ polaron_spin[ret.spin].nk = 2
    /\ InboxIndices[0] # InboxIndices[1]
    /\ \E cell \in DOMAIN InboxData : Unlisted(InboxIndices, cell)
    /\ \E cell \in DOMAIN InboxData : ~Unlisted(InboxIndices, cell) /\ InboxData[cell] # <<5, 0>>

====
